---- MODULE Spec2Model ----
(***************************************************************************)
(* Kanban board: the REST handlers of backend/src/routes (boards, tasks,   *)
(* columns) over the relational store of prisma/schema.prisma, and the     *)
(* client state of the BoardDetail component with its useColumns hook.     *)
(*                                                                         *)
(* A text (title, status, label) is a sequence of one-character strings.   *)
(* Every await of a handler on the store is one atomic step; the steps of  *)
(* different requests interleave freely.                                   *)
(***************************************************************************)
EXTENDS Integers, Sequences, FiniteSets, TLC

\* ------------------------------------------------------------------ bounds
MaxBoards == 2
MaxColumns == 3
MaxTasks == 1
MaxInFlight == 2
MaxTitleLen == 3
MaxDerivations == 2
MaxSubmits == 2

\* ------------------------------------------------------- program constants
ColumnTitleMax == 100
ColumnStatusMax == 50
TaskTitleMax == 200
BoardTitleMax == 100
BoardDescriptionMax == 500
TaskDescriptionMax == 1000

VARIABLES
    boards,      \* the ids of the stored Board rows
    boardRows,   \* stored Board rows: id -> [title, description]
    boardCount,  \* number of Board ids handed out so far (ids are never reused)
    columns,     \* stored Column rows: id -> [title, status, order, boardId]
    columnCount, \* number of Column ids handed out so far
    tasks,       \* stored Task rows: id -> [title, description, status, priority, boardId]
    taskCount,   \* number of Task ids handed out so far
    reqs,        \* the requests in flight: slot -> request record
    reply,       \* the last response the server sent: [kind, id, board, resp, body, error,
                 \* details], body the request body of an update, of POST /api/boards or
                 \* of a POST refused at once, details the fields that POST /api/boards
                 \* refused
    cascaded,    \* history: <<"task"|"column", id>> of rows removed by a board's cascade
    uiBoard,     \* BoardDetail: id of the board it shows (0: none selected)
    uiColumns,   \* useColumns: the client's local list of Column records
    uiTasks,     \* useTasks: the client's local list of Task records
    draggedTask, \* BoardDetail: id of the task being dragged (0: null)
    disturbed,   \* history: the client's requests overlapped, or another client changed
                 \* columns or tasks
    title,       \* status-key derivation: the title typed into the column form
    key,         \* status-key derivation: the keys derived so far, each from the one before
    form         \* a form of the client: [task, data, rules, errors, calls, submits, pc]

vars == <<boards, boardRows, boardCount, columns, columnCount, tasks, taskCount, reqs, reply,
          cascaded, uiBoard, uiColumns, uiTasks, draggedTask, disturbed, title, key, form>>

dragVars == <<uiTasks, draggedTask>>
uiVars == <<uiBoard, uiColumns, disturbed, dragVars>>
deriveVars == <<title, key>>
formVars == <<form>>

\* ------------------------------------------------------------------- texts
Whitespace == {" ", "\t"}

Lower == <<"a", "b", "c", "d", "e", "f", "g", "h", "i", "j", "k", "l", "m",
           "n", "o", "p", "q", "r", "s", "t", "u", "v", "w", "x", "y", "z">>
Upper == <<"A", "B", "C", "D", "E", "F", "G", "H", "I", "J", "K", "L", "M",
           "N", "O", "P", "Q", "R", "S", "T", "U", "V", "W", "X", "Y", "Z">>

\* String.prototype.toUpperCase on one character
toUpperCaseChar(c) ==
    IF \E i \in 1..Len(Lower) : Lower[i] = c
    THEN Upper[CHOOSE i \in 1..Len(Lower) : Lower[i] = c]
    ELSE c

toUpperCase(s) == [i \in 1..Len(s) |-> toUpperCaseChar(s[i])]

\* s.replace(/\s/g, '_'): every whitespace character becomes one '_'
replaceEachWhitespace(s) == [i \in 1..Len(s) |-> IF s[i] \in Whitespace THEN "_" ELSE s[i]]

\* s.replace(/\s+/g, '_'): every maximal run of whitespace becomes one '_'
RECURSIVE replaceWhitespaceRuns(_)
replaceWhitespaceRuns(s) ==
    IF s = <<>> THEN <<>>
    ELSE IF Head(s) \in Whitespace
         THEN IF Len(s) > 1 /\ s[2] \in Whitespace
              THEN replaceWhitespaceRuns(Tail(s))
              ELSE <<"_">> \o replaceWhitespaceRuns(Tail(s))
         ELSE <<Head(s)>> \o replaceWhitespaceRuns(Tail(s))

\* s.replace(/\s/, '_'): only the first whitespace character is replaced
RECURSIVE replaceFirstWhitespace(_)
replaceFirstWhitespace(s) ==
    IF s = <<>> THEN <<>>
    ELSE IF Head(s) \in Whitespace THEN <<"_">> \o Tail(s)
         ELSE <<Head(s)>> \o replaceFirstWhitespace(Tail(s))

deriveStatusKeyFirstOnly(t) == replaceFirstWhitespace(toUpperCase(t))

\* handleCreateColumn: data.title.toUpperCase().replace(/\s+/g, '_')
deriveStatusKey(t) == replaceWhitespaceRuns(toUpperCase(t))

\* express-validator trim(): strips whitespace from both ends
RECURSIVE trimLeft(_)
trimLeft(s) ==
    IF s # <<>> /\ Head(s) \in Whitespace THEN trimLeft(Tail(s)) ELSE s

RECURSIVE trimRight(_)
trimRight(s) ==
    IF s # <<>> /\ s[Len(s)] \in Whitespace
    THEN trimRight(SubSeq(s, 1, Len(s) - 1)) ELSE s

trim(s) == trimRight(trimLeft(s))

isLength(s, min, max) == Len(s) >= min /\ Len(s) <= max

\* a text of n characters c
Filled(c, n) == [i \in 1..n |-> c]

\* ------------------------------------------------------------------- store
TODO == <<"T", "O", "D", "O">>
IN_PROGRESS == <<"I", "N", "_", "P", "R", "O", "G", "R", "E", "S", "S">>
DONE == <<"D", "O", "N", "E">>

BoardIds == 1..MaxBoards
ColumnIds == 1..MaxColumns
TaskIds == 1..MaxTasks
Slots == 1..MaxInFlight

\* req.body.<field> !== undefined
has(body, field) == field \in DOMAIN body

Priorities == {"LOW", "MEDIUM", "HIGH"}

\* the request bodies the callers send; a field that is absent is undefined
BoardTitles == {<<"a">>, <<>>}
ColumnTitles == {<<"d", "o", "n", "e">>, <<"q", " ", "a">>, <<" ">>}
ColumnBodies ==
    {[title |-> <<"q", " ", "a">>, status |-> <<"Q", "_", "A">>],
     [title |-> <<" ">>, status |-> <<"Q", "_", "A">>],
     [title |-> <<"q", " ", "a">>, status |-> <<" ">>]}
TaskBodies ==
    {[title |-> t] : t \in {<<"a">>, <<" ">>}}
    \cup {[title |-> t, status |-> <<"Q", "_", "A">>] : t \in {<<"a">>, <<" ">>}}

NoReq ==
    [kind |-> "none", pc |-> "idle", ui |-> FALSE, board |-> 0, id |-> 0,
     title |-> <<>>, status |-> <<>>, order |-> 0, body |-> <<>>, resp |-> 0, data |-> <<>>]

\* a new request takes the first slot that serves no request
Idle(r) == reqs[r].kind = "none" /\ \A s \in Slots : s < r => reqs[s].kind # "none"
Row(id) == [id |-> id] @@ columns[id]

\* res.status(code).json(...) as the server sends it
Reply(kind, id, b, code) ==
    [kind |-> kind, id |-> id, board |-> b, resp |-> code, body |-> <<>>, error |-> "",
     details |-> <<>>]
ReplyTo(kind, id, b, code, body) == [Reply(kind, id, b, code) EXCEPT !.body = body]
\* res.status(code).json({ success: false, error })
Failure(r, error) == [r EXCEPT !.error = error]

\* a stored value that is no text: SQL NULL
null == <<"null">>
\* the value of a field that an object does not have
undefined == <<"undefined">>

\* no form is open
NoForm ==
    [task |-> 0, data |-> <<>>, rules |-> <<>>, errors |-> <<>>, calls |-> <<>>,
     submits |-> 0, pc |-> "closed"]

\* the response on its way to the browser client (an answered request of another
\* caller leaves the model)
InFlight(u, kind, id, b, code, payload) ==
    IF u THEN [NoReq EXCEPT !.kind = kind, !.pc = "done", !.ui = TRUE, !.id = id,
                            !.board = b, !.resp = code, !.data = payload]
    ELSE NoReq

\* schema.prisma: Task.board / Column.board @relation(..., onDelete: Cascade)
CascadeKeepAll(rows, b) == rows
Cascade(rows, b) == [i \in {j \in DOMAIN rows : rows[j].boardId # b} |-> rows[i]]

\* schema.prisma: the foreign key boardId -> Board.id, checked by the store on insert
ForeignKeyUnchecked(b) == TRUE
ForeignKeyHolds(b) == b \in boards

\* prisma.board.findUnique({ where: { id: boardId } }) of POST /tasks and POST /columns
boardFoundAlways(b) == TRUE
boardFound(b) == b \in boards

BoardColumns(b) == {c \in DOMAIN columns : columns[c].boardId = b}
BoardTasks(b) == {t \in DOMAIN tasks : tasks[t].boardId = b}

Insert(rows, id, row) == [i \in DOMAIN rows \cup {id} |-> IF i = id THEN row ELSE rows[i]]
Remove(rows, id) == [i \in DOMAIN rows \ {id} |-> rows[i]]

Creating(k) == Cardinality({r \in Slots : reqs[r].kind = k /\ reqs[r].pc # "done"})

\* ---------------------------------------------------------------- handlers
\* validateBoard / validateColumn / validateTask (express-validator chains)
validBoardUntrimmed(t) == isLength(t, 1, BoardTitleMax)
validBoard(t) == isLength(trim(t), 1, BoardTitleMax)
validColumn(body) ==
    /\ isLength(trim(body.title), 1, ColumnTitleMax)
    /\ isLength(trim(body.status), 1, ColumnStatusMax)
validTask(body) ==
    /\ isLength(trim(body.title), 1, TaskTitleMax)
    /\ has(body, "description") => isLength(trim(body.description), 0, TaskDescriptionMax)
    /\ has(body, "priority") => body.priority \in Priorities

\* status: status || 'TODO' (an undefined status and the empty string are falsy)
taskStatusAlwaysTodo(body) == TODO
taskStatus(body) == IF has(body, "status") /\ body.status # <<>> THEN body.status ELSE TODO
\* priority: priority || 'MEDIUM'
taskPriority(body) ==
    IF has(body, "priority") /\ body.priority # "" THEN body.priority ELSE "MEDIUM"

\* prisma.task.create({ data: { title, description, status, priority, boardId } }) on
\* the sanitized body
taskCreateData(body, b) ==
    [title |-> trim(body.title),
     description |-> IF has(body, "description") THEN trim(body.description) ELSE null,
     status |-> taskStatus(body), priority |-> taskPriority(body), boardId |-> b]

\* DELETE /api/boards/:id (prisma.board.delete, P2025 when the row is missing)
DeleteBoard ==
    /\ \E b \in BoardIds :
         IF b \in boards
         THEN /\ boards' = boards \ {b}
              /\ boardRows' = Remove(boardRows, b)
              /\ tasks' = Cascade(tasks, b)
              /\ columns' = Cascade(columns, b)
              /\ cascaded' = cascaded \cup {<<"task", t>> : t \in BoardTasks(b)}
                                      \cup {<<"column", c>> : c \in BoardColumns(b)}
              /\ disturbed' = (disturbed \/ BoardColumns(b) # {})
              /\ reply' = Reply("deleteBoard", b, 0, 200)
         ELSE /\ reply' = Failure(Reply("deleteBoard", b, 0, 404), "Board not found")
              /\ UNCHANGED <<boards, boardRows, tasks, columns, cascaded, disturbed>>
    /\ UNCHANGED <<boardCount, columnCount, taskCount, reqs, uiBoard, uiColumns, dragVars, deriveVars, formVars>>

\* GET /api/tasks/:id
GetTask ==
    /\ \E t \in TaskIds :
         reply' = IF t \in DOMAIN tasks THEN Reply("getTask", t, 0, 200)
                  ELSE Failure(Reply("getTask", t, 0, 404), "Task not found")
    /\ UNCHANGED <<boards, boardRows, boardCount, columns, columnCount, tasks, taskCount, reqs, cascaded,
                   uiVars, deriveVars, formVars>>

\* GET /api/columns/:id
GetColumn ==
    /\ \E c \in ColumnIds :
         reply' = IF c \in DOMAIN columns THEN Reply("getColumn", c, 0, 200)
                  ELSE Failure(Reply("getColumn", c, 0, 404), "Column not found")
    /\ UNCHANGED <<boards, boardRows, boardCount, columns, columnCount, tasks, taskCount, reqs, cascaded,
                   uiVars, deriveVars, formVars>>

\* POST /api/tasks with the body for the board b, up to the board lookup
PostTaskOf(r, body, b) ==
    /\ Idle(r)
    /\ IF ~validTask(body)
       THEN /\ reply' = Failure(ReplyTo("postTask", 0, b, 400, body), "Validation failed")
            /\ UNCHANGED reqs
       ELSE IF ~boardFound(b)
       THEN /\ reply' = Failure(ReplyTo("postTask", 0, b, 404, body), "Board not found")
            /\ UNCHANGED reqs
       ELSE /\ taskCount + Creating("postTask") < MaxTasks
            /\ reqs' = [reqs EXCEPT ![r] =
                   [NoReq EXCEPT !.kind = "postTask", !.pc = "create", !.board = b,
                                 !.title = trim(body.title), !.body = body]]
            /\ UNCHANGED reply
    /\ UNCHANGED <<boards, boardRows, boardCount, columns, columnCount, tasks, taskCount, cascaded,
                   uiVars, deriveVars, formVars>>

\* POST /api/tasks, up to the board lookup
PostTask(r) == \E body \in TaskBodies, b \in BoardIds : PostTaskOf(r, body, b)

\* POST /api/tasks: prisma.task.create
PostTaskCreate(r) ==
    /\ reqs[r].kind = "postTask" /\ reqs[r].pc = "create"
    /\ IF ForeignKeyHolds(reqs[r].board)
       THEN /\ taskCount' = taskCount + 1
            /\ tasks' = Insert(tasks, taskCount + 1, taskCreateData(reqs[r].body, reqs[r].board))
            /\ reply' = ReplyTo("postTask", taskCount + 1, reqs[r].board, 201, reqs[r].body)
       ELSE /\ reply' = Failure(ReplyTo("postTask", 0, reqs[r].board, 500, reqs[r].body),
                                "Failed to create task")
            /\ UNCHANGED <<tasks, taskCount>>
    /\ reqs' = [reqs EXCEPT ![r] = NoReq]
    /\ UNCHANGED <<boards, boardRows, boardCount, columns, columnCount, cascaded, uiVars, deriveVars, formVars>>

\* schema.prisma, model Column: no uniqueness constraint on (boardId, order)
ColumnInsertableUniqueOrder(b, order) ==
    ForeignKeyHolds(b) /\ \A c \in BoardColumns(b) : columns[c].order # order
ColumnInsertable(b, order) == ForeignKeyHolds(b)

\* prisma.column.findFirst({ where: { boardId }, orderBy: { order: 'desc' } }); 0 is null
lastColumnAscending(b) ==
    IF BoardColumns(b) = {} THEN 0
    ELSE CHOOSE c \in BoardColumns(b) :
           \A d \in BoardColumns(b) : columns[d].order >= columns[c].order
lastColumn(b) ==
    IF BoardColumns(b) = {} THEN 0
    ELSE CHOOSE c \in BoardColumns(b) :
           \A d \in BoardColumns(b) : columns[d].order <= columns[c].order

nextColumnOrderByCount(b) == Cardinality(BoardColumns(b))

\* const order = lastColumn ? lastColumn.order + 1 : 0
nextColumnOrder(b) == IF lastColumn(b) = 0 THEN 0 ELSE columns[lastColumn(b)].order + 1

\* prisma.column.findMany({ where: { boardId }, orderBy: { order: 'asc' } }):
\* the listings the store may return (rows of equal order come in any order)
findManyUnordered(b) ==
    LET n == Cardinality(BoardColumns(b)) IN
    {[i \in 1..n |-> Row(s[i])] :
        s \in {f \in [1..n -> BoardColumns(b)] : \A i, j \in 1..n : i # j => f[i] # f[j]}}
findManyByOrder(b) ==
    {s \in findManyUnordered(b) : \A i, j \in 1..Len(s) : i < j => s[i].order <= s[j].order}

UiBusy == \E r \in Slots : reqs[r].ui

\* POST /api/columns, up to the board lookup
StartPostColumn(r, body, b, u) ==
    /\ Idle(r)
    /\ IF ~validColumn(body)
       THEN /\ reply' = Failure(ReplyTo("postColumn", 0, b, 400, body), "Validation failed")
            /\ reqs' = [reqs EXCEPT ![r] = InFlight(u, "postColumn", 0, b, 400, <<>>)]
       ELSE IF ~boardFound(b)
       THEN /\ reply' = Failure(ReplyTo("postColumn", 0, b, 404, body), "Board not found")
            /\ reqs' = [reqs EXCEPT ![r] = InFlight(u, "postColumn", 0, b, 404, <<>>)]
       ELSE /\ columnCount + Creating("postColumn") < MaxColumns
            /\ reqs' = [reqs EXCEPT ![r] =
                   [NoReq EXCEPT !.kind = "postColumn", !.pc = "findLast", !.ui = u,
                                 !.board = b, !.title = trim(body.title),
                                 !.status = trim(body.status)]]
            /\ UNCHANGED reply
    /\ UNCHANGED <<boards, boardRows, boardCount, columns, columnCount, tasks, taskCount, cascaded,
                   uiBoard, uiColumns, dragVars, deriveVars, formVars>>

\* POST /api/columns sent by another caller of the API
PostColumn(r) ==
    /\ \E body \in ColumnBodies, b \in BoardIds : StartPostColumn(r, body, b, FALSE)
    /\ UNCHANGED disturbed

\* POST /api/columns: the lookup of the board's last column
PostColumnFindLast(r) ==
    /\ reqs[r].kind = "postColumn" /\ reqs[r].pc = "findLast"
    /\ reqs' = [reqs EXCEPT ![r] =
           [@ EXCEPT !.pc = "create", !.order = nextColumnOrder(reqs[r].board)]]
    /\ UNCHANGED <<boards, boardRows, boardCount, columns, columnCount, tasks, taskCount, reply, cascaded,
                   uiVars, deriveVars, formVars>>

\* POST /api/columns: prisma.column.create
PostColumnCreate(r) ==
    /\ reqs[r].kind = "postColumn" /\ reqs[r].pc = "create"
    /\ LET q == reqs[r]
           row == [title |-> q.title, status |-> q.status, order |-> q.order,
                   boardId |-> q.board]
       IN IF ColumnInsertable(q.board, q.order)
          THEN /\ columnCount' = columnCount + 1
               /\ columns' = Insert(columns, columnCount + 1, row)
               /\ reply' = Reply("postColumn", columnCount + 1, q.board, 201)
               /\ reqs' = [reqs EXCEPT ![r] =
                      InFlight(q.ui, "postColumn", columnCount + 1, q.board, 201,
                               <<[id |-> columnCount + 1] @@ row>>)]
               /\ disturbed' = (disturbed \/ ~q.ui)
          ELSE /\ reply' = Failure(Reply("postColumn", 0, q.board, 500), "Failed to create column")
               /\ reqs' = [reqs EXCEPT ![r] = InFlight(q.ui, "postColumn", 0, q.board, 500, <<>>)]
               /\ UNCHANGED <<columns, columnCount, disturbed>>
    /\ UNCHANGED <<boards, boardRows, boardCount, tasks, taskCount, cascaded, uiBoard, uiColumns,
                   dragVars, deriveVars, formVars>>

DeleteColumnWithTasks(c) ==
    /\ IF c \in DOMAIN columns
       THEN /\ columns' = Remove(columns, c)
            /\ tasks' = [t \in {u \in DOMAIN tasks : tasks[u].status # columns[c].status}
                            |-> tasks[t]]
            /\ reply' = Reply("deleteColumn", c, 0, 200)
       ELSE /\ reply' = Failure(Reply("deleteColumn", c, 0, 404), "Column not found")
            /\ UNCHANGED <<columns, tasks>>
    /\ UNCHANGED <<boards, boardRows, boardCount, columnCount, taskCount, cascaded,
                   uiBoard, uiColumns, dragVars, deriveVars, formVars>>

\* DELETE /api/columns/:id (prisma.column.delete, P2025 when the row is missing)
DeleteColumnById(c) ==
    /\ IF c \in DOMAIN columns
       THEN columns' = Remove(columns, c) /\ reply' = Reply("deleteColumn", c, 0, 200)
       ELSE /\ reply' = Failure(Reply("deleteColumn", c, 0, 404), "Column not found")
            /\ UNCHANGED columns
    /\ UNCHANGED <<boards, boardRows, boardCount, columnCount, tasks, taskCount, cascaded,
                   uiBoard, uiColumns, dragVars, deriveVars, formVars>>

\* DELETE /api/columns/:id sent by another caller of the API
DeleteColumn ==
    \E c \in ColumnIds :
        /\ DeleteColumnById(c)
        /\ disturbed' = (disturbed \/ c \in DOMAIN columns)
        /\ UNCHANGED reqs

\* ----------------------------------------------------------------- updates
\* the bodies the callers send with PUT; a field that is absent is undefined
BoardPatches ==
    {[description |-> <<"d">>],
     [title |-> <<" ", "b">>]}
TaskPatches ==
    {<<>>,
     [status |-> <<"X">>],
     [status |-> TODO],
     [title |-> <<" ", "b">>, description |-> <<"c", " ">>, priority |-> "HIGH"],
     [title |-> <<" ">>, status |-> <<"X">>],
     [status |-> <<"X">>, priority |-> "URGENT"]}
ColumnPatches ==
    {[title |-> <<"b", " ">>],
     [status |-> <<" ", "X">>, order |-> 7],
     [title |-> <<"b">>, status |-> <<" ">>],
     [order |-> 0 - 1]}

\* validateBoard, also the validator of PUT /api/boards/:id: title is not optional, a
\* body without title is validated as the empty title
validBoardBody(body) ==
    /\ validBoard(IF has(body, "title") THEN body.title ELSE <<>>)
    /\ has(body, "description") => isLength(trim(body.description), 0, BoardDescriptionMax)

\* PUT /api/boards/:id: data: { title, description }, an undefined field is not written
boardUpdateData(body) ==
    [f \in DOMAIN body \cap {"title", "description"} |-> trim(body[f])]

validTaskPatchKnownStatus(body) ==
    /\ has(body, "title") => isLength(trim(body.title), 1, TaskTitleMax)
    /\ has(body, "status") =>
          \/ body.status \in {TODO, IN_PROGRESS, DONE}
          \/ \E c \in DOMAIN columns : columns[c].status = body.status
\* the validator chain of PUT /api/tasks/:id: every field optional; status must be a
\* string, which every text is
validTaskPatch(body) ==
    /\ has(body, "title") => isLength(trim(body.title), 1, TaskTitleMax)
    /\ has(body, "description") => isLength(trim(body.description), 0, TaskDescriptionMax)
    /\ has(body, "priority") => body.priority \in Priorities

taskUpdateDataWithDefaults(body) ==
    [f \in {"title", "description", "status", "priority"} |->
        IF ~has(body, f) THEN (IF f = "status" THEN TODO
                               ELSE IF f = "priority" THEN "MEDIUM"
                               ELSE IF f = "title" THEN <<>> ELSE null)
        ELSE IF f \in {"title", "description"} THEN trim(body[f]) ELSE body[f]]
\* PUT /api/tasks/:id: updateData holds the fields that are provided, title and
\* description as trimmed by the validator chain
taskUpdateData(body) ==
    [f \in DOMAIN body \cap {"title", "description", "status", "priority"} |->
        IF f \in {"title", "description"} THEN trim(body[f]) ELSE body[f]]

validColumnPatchAlways(body) == TRUE
\* the validator chain of PUT /api/columns/:id: every field optional
validColumnPatch(body) ==
    /\ has(body, "title") => isLength(trim(body.title), 1, ColumnTitleMax)
    /\ has(body, "status") => isLength(trim(body.status), 1, ColumnStatusMax)
    /\ has(body, "order") => body.order >= 0

\* PUT /api/columns/:id: updateData holds the fields that are provided, title and
\* status as trimmed by the validator chain
columnUpdateData(body) ==
    [f \in DOMAIN body \cap {"title", "status", "order"} |->
        IF f \in {"title", "status"} THEN trim(body[f]) ELSE body[f]]

\* prisma.<model>.update({ where: { id }, data }): the row with the fields of data written
\* errors.array() of validateBoard, each entry by its field
boardErrors(body) ==
    (IF validBoard(IF has(body, "title") THEN body.title ELSE <<>>) THEN <<>> ELSE <<"title">>)
    \o (IF has(body, "description") /\ ~isLength(trim(body.description), 0, BoardDescriptionMax)
        THEN <<"description">> ELSE <<>>)

\* prisma.board.create({ data: { title, description } }) on the sanitized body: an
\* undefined description is stored as NULL
boardCreateData(body) ==
    [title |-> trim(body.title),
     description |-> IF has(body, "description") THEN trim(body.description) ELSE null]

\* POST /api/boards answered for the body
PostBoardOf(body) ==
    /\ IF boardErrors(body) # <<>>
       THEN /\ reply' = [Failure(ReplyTo("postBoard", 0, 0, 400, body), "Validation failed")
                            EXCEPT !.details = boardErrors(body)]
            /\ UNCHANGED <<boards, boardRows, boardCount>>
       ELSE /\ boardCount < MaxBoards
            /\ boardCount' = boardCount + 1
            /\ boards' = boards \cup {boardCount + 1}
            /\ boardRows' = Insert(boardRows, boardCount + 1, boardCreateData(body))
            /\ reply' = ReplyTo("postBoard", boardCount + 1, 0, 201, body)
    /\ UNCHANGED <<columns, columnCount, tasks, taskCount, reqs, cascaded, uiVars, deriveVars, formVars>>

\* POST /api/boards
PostBoard == \E t \in BoardTitles : PostBoardOf([title |-> t])

update(row, data) == [f \in DOMAIN row |-> IF f \in DOMAIN data THEN data[f] ELSE row[f]]

\* prisma update / delete: error P2025 when no row has the id
recordFound(rows, id) == id \in DOMAIN rows

\* PUT /api/boards/:id
PutBoard ==
    /\ \E b \in BoardIds, body \in BoardPatches :
         IF ~validBoardBody(body)
         THEN /\ reply' = Failure(ReplyTo("putBoard", b, 0, 400, body), "Validation failed")
              /\ UNCHANGED boardRows
         ELSE IF ~recordFound(boardRows, b)
         THEN /\ reply' = Failure(ReplyTo("putBoard", b, 0, 404, body), "Board not found")
              /\ UNCHANGED boardRows
         ELSE /\ boardRows' = [boardRows EXCEPT ![b] = update(@, boardUpdateData(body))]
              /\ reply' = ReplyTo("putBoard", b, 0, 200, body)
    /\ UNCHANGED <<boards, boardCount, columns, columnCount, tasks, taskCount, reqs, cascaded,
                   uiVars, deriveVars, formVars>>

\* PUT /api/tasks/:id answered for the task t
PutTaskById(t, body) ==
    /\ IF ~validTaskPatch(body)
       THEN /\ reply' = Failure(ReplyTo("putTask", t, 0, 400, body), "Validation failed")
            /\ UNCHANGED tasks
       ELSE IF ~recordFound(tasks, t)
       THEN /\ reply' = Failure(ReplyTo("putTask", t, 0, 404, body), "Task not found")
            /\ UNCHANGED tasks
       ELSE /\ tasks' = [tasks EXCEPT ![t] = update(@, taskUpdateData(body))]
            /\ reply' = ReplyTo("putTask", t, 0, 200, body)
    /\ UNCHANGED <<boards, boardRows, boardCount, columns, columnCount, taskCount, cascaded,
                   uiBoard, uiColumns, dragVars, deriveVars, formVars>>

\* PUT /api/tasks/:id sent by another caller of the API
PutTask ==
    /\ \E t \in TaskIds, body \in TaskPatches : PutTaskById(t, body)
    /\ disturbed' = (disturbed \/ reply'.resp = 200)
    /\ UNCHANGED reqs

\* PUT /api/columns/:id
PutColumn ==
    /\ \E c \in ColumnIds, body \in ColumnPatches :
         IF ~validColumnPatch(body)
         THEN /\ reply' = Failure(ReplyTo("putColumn", c, 0, 400, body), "Validation failed")
              /\ UNCHANGED <<columns, disturbed>>
         ELSE IF ~recordFound(columns, c)
         THEN /\ reply' = Failure(ReplyTo("putColumn", c, 0, 404, body), "Column not found")
              /\ UNCHANGED <<columns, disturbed>>
         ELSE /\ columns' = [columns EXCEPT ![c] = update(@, columnUpdateData(body))]
              /\ reply' = ReplyTo("putColumn", c, 0, 200, body)
              /\ disturbed' = TRUE
    /\ UNCHANGED <<boards, boardRows, boardCount, columnCount, tasks, taskCount, reqs, cascaded,
                   uiBoard, uiColumns, dragVars, deriveVars, formVars>>

deleteAnswerAlwaysOk(kind, id, found, entity) == Reply(kind, id, 0, 200)
\* DELETE handlers: 200, or 404 '<Entity> not found' on the error P2025
deleteAnswer(kind, id, found, entity) ==
    IF found THEN Reply(kind, id, 0, 200)
    ELSE Failure(Reply(kind, id, 0, 404), entity \o " not found")

\* DELETE /api/tasks/:id
DeleteTask ==
    /\ \E t \in TaskIds :
         /\ tasks' = IF recordFound(tasks, t) THEN Remove(tasks, t) ELSE tasks
         /\ reply' = deleteAnswer("deleteTask", t, recordFound(tasks, t), "Task")
         /\ disturbed' = (disturbed \/ recordFound(tasks, t))
    /\ UNCHANGED <<boards, boardRows, boardCount, columns, columnCount, taskCount, reqs, cascaded,
                   uiBoard, uiColumns, dragVars, deriveVars, formVars>>

\* ------------------------------------------------------------------ client
\* BoardDetail: const staticStatuses = ['TODO', 'IN_PROGRESS', 'DONE']
staticStatuses == <<TODO, IN_PROGRESS, DONE>>

includes(seq, x) == \E i \in 1..Len(seq) : seq[i] = x

allStatusesCustomFirst(cols) == [i \in 1..Len(cols) |-> cols[i].status] \o staticStatuses

\* BoardDetail: const allStatuses = [...staticStatuses, ...columns.map(col => col.status)]
allStatuses(cols) == staticStatuses \o [i \in 1..Len(cols) |-> cols[i].status]

\* columns.find(col => col.status === status): index of the first match, 0 when none
find(cols, status) ==
    IF \E i \in 1..Len(cols) : cols[i].status = status
    THEN CHOOSE i \in 1..Len(cols) :
           cols[i].status = status /\ \A j \in 1..(i - 1) : cols[j].status # status
    ELSE 0

\* TaskColumn.getStatusLabel
getStatusLabel(status) ==
    IF status = IN_PROGRESS THEN <<"D", "O", "I", "N", "G">> ELSE status

\* BoardDetail: title={column?.title || status}
titleProp(cols, status) ==
    IF find(cols, status) # 0 /\ cols[find(cols, status)].title # <<>>
    THEN cols[find(cols, status)].title
    ELSE status

\* TaskColumn: {title || getStatusLabel(status)}
columnTitle(t, status) == IF t # <<>> THEN t ELSE getStatusLabel(status)

isStaticOnlyTodo(status) == status = TODO
\* BoardDetail: const isStatic = staticStatuses.includes(status)
isStatic(status) == includes(staticStatuses, status)

\* BoardDetail: onDeleteColumn={isStatic ? undefined : () => deleteColumn(...)} and
\* TaskColumn: {!isStatic && onDeleteColumn && <button className="delete-column-btn">}
isDeletable(status) ==
    LET onDeleteColumn == ~isStatic(status) IN ~isStatic(status) /\ onDeleteColumn

\* BoardDetail: the TaskColumn elements rendered for allStatuses, in order;
\* deletes is the id onDeleteColumn passes to deleteColumn: column?.id || '' (0 is '')
effectiveColumns(cols) ==
    [i \in 1..Len(allStatuses(cols)) |->
        LET status == allStatuses(cols)[i]
        IN [status |-> status,
            title |-> columnTitle(titleProp(cols, status), status),
            isStatic |-> isStatic(status),
            deleteButton |-> isDeletable(status),
            deletes |-> IF find(cols, status) = 0 THEN 0 ELSE cols[find(cols, status)].id]]

\* App.handleSelectBoard, then useColumns' effect: fetchColumns() of the new board
\* (GET /api/columns/boards/:boardId)
UiSelectBoard(r) ==
    /\ Idle(r)
    /\ \E b \in 1..boardCount : \E listing \in findManyByOrder(b) :
         /\ b # uiBoard
         /\ uiBoard' = b
         /\ reply' = Reply("getColumns", 0, b, 200)
         /\ reqs' = [reqs EXCEPT ![r] = InFlight(TRUE, "getColumns", 0, b, 200, listing)]
    /\ disturbed' = (disturbed \/ UiBusy)
    /\ UNCHANGED <<boards, boardRows, boardCount, columns, columnCount, tasks, taskCount, cascaded,
                   uiColumns, dragVars, deriveVars, formVars>>

\* BoardDetail.handleCreateColumn -> useColumns.createColumn -> POST /api/columns
UiCreateColumn(r) ==
    /\ uiBoard # 0
    /\ \E t \in ColumnTitles :
         StartPostColumn(r, [title |-> t, status |-> deriveStatusKey(t)], uiBoard, TRUE)
    /\ disturbed' = (disturbed \/ UiBusy)

\* TaskColumn delete-column-btn -> useColumns.deleteColumn -> DELETE /api/columns/:id
UiDeleteColumn(r) ==
    /\ uiBoard # 0
    /\ Idle(r)
    /\ \E i \in 1..Len(allStatuses(uiColumns)) :
         LET column == effectiveColumns(uiColumns)[i]
             c == column.deletes IN
         /\ column.deleteButton
         /\ DeleteColumnById(c)
         /\ reqs' = [reqs EXCEPT ![r] =
                InFlight(TRUE, "deleteColumn", c, 0, reply'.resp, <<>>)]
    /\ disturbed' = (disturbed \/ UiBusy)

\* GET /api/tasks?boardId=b: prisma.task.findMany({ where, orderBy: { createdAt: 'asc' } }),
\* the tasks of the board in the order of their creation
RECURSIVE tasksUpTo(_, _)
tasksUpTo(b, n) ==
    IF n = 0 THEN <<>>
    ELSE tasksUpTo(b, n - 1)
         \o (IF n \in DOMAIN tasks /\ tasks[n].boardId = b THEN <<[id |-> n] @@ tasks[n]>> ELSE <<>>)
findManyTasks(b) == tasksUpTo(b, taskCount)

\* Sidebar onSelectBoard -> App.handleSelectBoard: BoardDetail is rendered again with the
\* other board, useTasks' effect runs fetchTasks for the new boardId -> GET /api/tasks
UiSwitchBoard(r) ==
    /\ Idle(r)
    /\ \E b \in 1..boardCount :
         /\ b # uiBoard
         /\ uiBoard' = b
         /\ reply' = Reply("getTasks", 0, b, 200)
         /\ reqs' = [reqs EXCEPT ![r] = InFlight(TRUE, "getTasks", 0, b, 200, findManyTasks(b))]
    /\ disturbed' = (disturbed \/ UiBusy)
    /\ UNCHANGED <<boards, boardRows, boardCount, columns, columnCount, tasks, taskCount, cascaded,
                   uiColumns, dragVars, deriveVars, formVars>>

createColumnPrepend(prev, data) == data \o prev
\* useColumns.createColumn: setColumns(prev => [...prev, response.data])
createColumnAppend(prev, data) == prev \o data

\* useColumns.deleteColumn: setColumns(prev => prev.filter(col => col.id !== id))
RECURSIVE filterOut(_, _)
filterOut(prev, id) ==
    IF prev = <<>> THEN <<>>
    ELSE IF Head(prev).id = id THEN filterOut(Tail(prev), id)
         ELSE <<Head(prev)>> \o filterOut(Tail(prev), id)

\* TaskCard onDragStart -> BoardDetail.handleDragStart: a rendered card (its status is
\* that of a rendered column) is picked up
UiDragStart ==
    /\ uiBoard # 0
    /\ \E i \in 1..Len(uiTasks) :
         /\ includes(allStatuses(uiColumns), uiTasks[i].status)
         /\ draggedTask' = uiTasks[i].id
    /\ UNCHANGED <<boards, boardRows, boardCount, columns, columnCount, tasks, taskCount, reqs,
                   reply, cascaded, uiBoard, uiColumns, uiTasks, disturbed, deriveVars, formVars>>

\* TaskCard onDragEnd -> BoardDetail.handleDragEnd
UiDragEnd ==
    /\ draggedTask' = 0
    /\ UNCHANGED <<boards, boardRows, boardCount, columns, columnCount, tasks, taskCount, reqs,
                   reply, cascaded, uiBoard, uiColumns, uiTasks, disturbed, deriveVars, formVars>>

\* TaskColumn.handleDrop on a rendered column: if (draggedTask) onTaskDrop(draggedTask,
\* status) -> BoardDetail.handleTaskDrop -> useTasks.updateTask -> PUT /api/tasks/:id
UiDrop(r) ==
    /\ uiBoard # 0
    /\ Idle(r)
    /\ \E i \in 1..Len(allStatuses(uiColumns)) :
         IF draggedTask # 0
         THEN /\ PutTaskById(draggedTask, [status |-> allStatuses(uiColumns)[i]])
              /\ reqs' = [reqs EXCEPT ![r] =
                     InFlight(TRUE, "putTask", draggedTask, 0, reply'.resp,
                              IF reply'.resp = 200
                              THEN <<[id |-> draggedTask] @@ tasks'[draggedTask]>>
                              ELSE <<>>)]
              /\ disturbed' = (disturbed \/ UiBusy)
         ELSE UNCHANGED vars

updateTaskMapAll(prev, id, data) == [i \in 1..Len(prev) |-> data[1]]
\* useTasks.updateTask: setTasks(prev => prev.map(task => task.id === id ? response.data : task))
updateTaskMap(prev, id, data) ==
    [i \in 1..Len(prev) |-> IF prev[i].id = id THEN data[1] ELSE prev[i]]

\* a response reaches the browser client: the useColumns and useTasks callbacks update
\* the local lists
Deliver(r) ==
    /\ reqs[r].pc = "done"
    /\ reqs' = [reqs EXCEPT ![r] = NoReq]
    /\ uiColumns' =
         IF reqs[r].kind = "getColumns" /\ reqs[r].resp = 200 THEN reqs[r].data
         ELSE IF reqs[r].kind = "postColumn" /\ reqs[r].resp = 201
              THEN createColumnAppend(uiColumns, reqs[r].data)
         ELSE IF reqs[r].kind = "deleteColumn" /\ reqs[r].resp = 200
              THEN filterOut(uiColumns, reqs[r].id)
         ELSE uiColumns
    /\ uiTasks' =
         IF reqs[r].kind = "getTasks" /\ reqs[r].resp = 200 THEN reqs[r].data
         ELSE IF reqs[r].kind = "putTask" /\ reqs[r].resp = 200
              THEN updateTaskMap(uiTasks, reqs[r].id, reqs[r].data)
         ELSE uiTasks
    /\ UNCHANGED <<boards, boardRows, boardCount, columns, columnCount, tasks, taskCount, reply, cascaded,
                   uiBoard, draggedTask, disturbed, deriveVars, formVars>>

getTasksByStatusAll(list, status) == list
\* BoardDetail.getTasksByStatus: tasks.filter(task => task.status === status)
getTasksByStatus(list, status) == SelectSeq(list, LAMBDA task : task.status = status)

\* the tasks prop of the i-th rendered TaskColumn: getTasksByStatus(status)
columnTasks(cols, list, i) == getTasksByStatus(list, allStatuses(cols)[i])

\* ------------------------------------------------------------ client forms
\* data[field]
valueOf(data, field) == IF has(data, field) THEN data[field] ELSE undefined
\* !value, for a value that is a text or no value
falsy(value) == value \in {undefined, null, <<>>}

\* the messages of validateField
Required == <<"This field is required">>
AtLeast(n) == <<"Must be at least ", n, " characters">>
NoMoreThan(n) == <<"Must be no more than ", n, " characters">>

\* rules.minLength && ..., rules.maxLength && ...: a limit of 0 is falsy
limitSet(rule, limit) == has(rule, limit) /\ rule[limit] # 0

\* validateField(value, rules) for rules of required, minLength and maxLength
validateField(value, rule) ==
    IF has(rule, "required") /\ rule.required /\ (falsy(value) \/ trim(value) = <<>>)
    THEN Required
    ELSE IF ~falsy(value) /\ limitSet(rule, "minLength") /\ Len(value) < rule.minLength
    THEN AtLeast(rule.minLength)
    ELSE IF ~falsy(value) /\ limitSet(rule, "maxLength") /\ Len(value) > rule.maxLength
    THEN NoMoreThan(rule.maxLength)
    ELSE null

\* validateForm(data, rules): errors[field] for the fields of rules with an error
validateForm(data, rules) ==
    [f \in {g \in DOMAIN rules : validateField(valueOf(data, g), rules[g]) # null} |->
        validateField(valueOf(data, f), rules[f])]

\* taskValidationRules
taskValidationRules ==
    [title |-> [required |-> TRUE, minLength |-> 1, maxLength |-> TaskTitleMax],
     description |-> [maxLength |-> TaskDescriptionMax],
     boardId |-> [required |-> TRUE]]

\* validateForm called with the form's data and rules
ValidateForm ==
    /\ form.pc = "filled"
    /\ form' = [form EXCEPT !.errors = validateForm(form.data, form.rules), !.pc = "validated"]
    /\ UNCHANGED <<boards, boardRows, boardCount, columns, columnCount, tasks, taskCount, reqs,
                   reply, cascaded, uiVars, deriveVars>>

\* EditTaskModal: useFormState({ title, description: task.description || '', status,
\* priority }) for the task
editFormData(task) ==
    [title |-> task.title,
     description |-> IF falsy(task.description) THEN <<>> ELSE task.description,
     status |-> task.status, priority |-> task.priority]

\* what the user types or selects in the edit-task form
TypedTitles == {<<>>, <<" ">>, <<"b">>, Filled("b", TaskTitleMax), Filled("b", TaskTitleMax + 1)}
TypedDescriptions == {<<>>, <<"c">>, Filled("c", TaskDescriptionMax + 1)}
Typed(field) ==
    CASE field = "title" -> TypedTitles
      [] field = "description" -> TypedDescriptions
      [] field = "status" -> {TODO, DONE}
      [] field = "priority" -> Priorities

\* useFormState.updateField: the field is set, a shown error of the field is cleared
updateField(f, field, value) ==
    [f EXCEPT !.data = [@ EXCEPT ![field] = value],
              !.errors = IF has(@, field) /\ @[field] # <<>>
                         THEN [@ EXCEPT ![field] = <<>>] ELSE @]

\* the task's edit button: EditTaskModal is opened for a task of the local list
OpenEditTask ==
    /\ form.pc = "closed"
    /\ \E i \in 1..Len(uiTasks) :
         form' = [NoForm EXCEPT !.task = uiTasks[i].id, !.data = editFormData(uiTasks[i]),
                                !.rules = taskValidationRules, !.pc = "open"]
    /\ UNCHANGED <<boards, boardRows, boardCount, columns, columnCount, tasks, taskCount, reqs,
                   reply, cascaded, uiVars, deriveVars>>

\* onChange of an input or select of the edit-task form
EditTaskField ==
    /\ form.pc = "open"
    /\ \E field \in {"title", "description", "status", "priority"} : \E value \in Typed(field) :
         form' = updateField(form, field, value)
    /\ UNCHANGED <<boards, boardRows, boardCount, columns, columnCount, tasks, taskCount, reqs,
                   reply, cascaded, uiVars, deriveVars>>

\* setFieldError for each entry of the validation errors
setFieldErrors(errors, found) ==
    [f \in DOMAIN errors \cup DOMAIN found |-> IF has(found, f) THEN found[f] ELSE errors[f]]

\* EditTaskModal.handleSubmit: validation, then onUpdateTask(task.id, formData), resetForm
\* and onClose
SubmitEditTask ==
    /\ form.pc = "open"
    /\ form.submits < MaxSubmits
    /\ LET validationErrors == validateForm(form.data, taskValidationRules) IN
       IF DOMAIN validationErrors # {}
       THEN form' = [form EXCEPT !.errors = setFieldErrors(@, validationErrors),
                                 !.submits = @ + 1]
       ELSE form' = [NoForm EXCEPT !.calls = Append(form.calls, [id |-> form.task, data |-> form.data]),
                                   !.submits = form.submits + 1]
    /\ UNCHANGED <<boards, boardRows, boardCount, columns, columnCount, tasks, taskCount, reqs,
                   reply, cascaded, uiVars, deriveVars>>

\* EditTaskModal.handleClose
CloseEditTask ==
    /\ form.pc = "open"
    /\ form' = [NoForm EXCEPT !.calls = form.calls, !.submits = form.submits]
    /\ UNCHANGED <<boards, boardRows, boardCount, columns, columnCount, tasks, taskCount, reqs,
                   reply, cascaded, uiVars, deriveVars>>

\* ------------------------------------------------------------ specification
Init ==
    /\ boards = {} /\ boardRows = <<>> /\ boardCount = 0
    /\ columns = <<>> /\ columnCount = 0
    /\ tasks = <<>> /\ taskCount = 0
    /\ reqs = [r \in Slots |-> NoReq]
    /\ reply = Reply("none", 0, 0, 0)
    /\ cascaded = {}
    /\ uiBoard = 0 /\ uiColumns = <<>> /\ disturbed = FALSE
    /\ uiTasks = <<>> /\ draggedTask = 0
    /\ title = <<>> /\ key = <<>>
    /\ form = NoForm

\* the REST API under concurrent callers
Next ==
    \/ PostBoard
    \/ DeleteBoard
    \/ GetTask
    \/ GetColumn
    \/ DeleteColumn
    \/ \E r \in Slots :
        \/ PostTask(r)
        \/ PostTaskCreate(r)
        \/ PostColumn(r)
        \/ PostColumnFindLast(r)
        \/ PostColumnCreate(r)

Spec == Init /\ [][Next]_vars

\* the store once a first board has been created (POST /api/boards answered 201)
InitClient ==
    /\ boards = {1} /\ boardCount = 1
    /\ boardRows = 1 :> [title |-> <<"a">>, description |-> null]
    /\ columns = <<>> /\ columnCount = 0
    /\ tasks = <<>> /\ taskCount = 0
    /\ reqs = [r \in Slots |-> NoReq]
    /\ reply = ReplyTo("postBoard", 1, 0, 201, [title |-> <<"a">>])
    /\ cascaded = {}
    /\ uiBoard = 0 /\ uiColumns = <<>> /\ disturbed = FALSE
    /\ uiTasks = <<>> /\ draggedTask = 0
    /\ title = <<>> /\ key = <<>>
    /\ form = NoForm

\* one browser client on a board, next to other callers of the column API
NextClient ==
    \/ DeleteColumn
    \/ \E r \in Slots :
        \/ PostColumn(r)
        \/ PostColumnFindLast(r)
        \/ PostColumnCreate(r)
        \/ UiSelectBoard(r)
        \/ UiCreateColumn(r)
        \/ UiDeleteColumn(r)
        \/ Deliver(r)

SpecClient == InitClient /\ [][NextClient]_vars

\* a store with history: the first board with its first column; the boards and the
\* columns created after them have been deleted; one more column and one more task fit
InitUpdate ==
    /\ boards = {1} /\ boardCount = MaxBoards
    /\ boardRows = 1 :> [title |-> <<"a">>, description |-> <<"c">>]
    /\ columns = 1 :> [title |-> <<"q", " ", "a">>, status |-> <<"Q", "_", "A">>,
                       order |-> 0, boardId |-> 1]
    /\ columnCount = MaxColumns - 1
    /\ tasks = <<>> /\ taskCount = MaxTasks - 1
    /\ reqs = [r \in Slots |-> NoReq]
    /\ reply = Reply("none", 0, 0, 0)
    /\ cascaded = {}
    /\ uiBoard = 0 /\ uiColumns = <<>> /\ disturbed = FALSE
    /\ uiTasks = <<>> /\ draggedTask = 0
    /\ title = <<>> /\ key = <<>>
    /\ form = NoForm

\* the REST API with its update and delete routes
NextUpdate ==
    \/ PostBoard
    \/ PutBoard
    \/ DeleteBoard
    \/ PutTask
    \/ DeleteTask
    \/ PutColumn
    \/ DeleteColumn
    \/ \E r \in Slots :
        \/ PostTask(r)
        \/ PostTaskCreate(r)
        \/ PostColumn(r)
        \/ PostColumnFindLast(r)
        \/ PostColumnCreate(r)

SpecUpdate == InitUpdate /\ [][NextUpdate]_vars

\* the board of the client with its column and its tasks fetched: MaxTasks + 1 tasks
\* in TODO
InitDrag ==
    /\ boards = {1} /\ boardCount = 1
    /\ boardRows = 1 :> [title |-> <<"a">>, description |-> null]
    /\ columns = 1 :> [title |-> <<"q", " ", "a">>, status |-> <<"Q", "_", "A">>,
                       order |-> 0, boardId |-> 1]
    /\ columnCount = 1
    /\ tasks = [t \in 1..(MaxTasks + 1) |->
                   [title |-> <<"a">>, description |-> null, status |-> TODO,
                    priority |-> "MEDIUM", boardId |-> 1]]
    /\ taskCount = MaxTasks + 1
    /\ reqs = [r \in Slots |-> NoReq]
    /\ reply = Reply("none", 0, 0, 0)
    /\ cascaded = {}
    /\ uiBoard = 1 /\ uiColumns = <<[id |-> 1] @@ columns[1]>> /\ disturbed = FALSE
    /\ uiTasks = [t \in 1..(MaxTasks + 1) |-> [id |-> t] @@ tasks[t]]
    /\ draggedTask = 0
    /\ title = <<>> /\ key = <<>>
    /\ form = NoForm

\* drag and drop on the board, next to another caller deleting tasks
NextDrag ==
    \/ UiDragStart
    \/ UiDragEnd
    \/ DeleteTask
    \/ \E r \in Slots :
        \/ UiDrop(r)
        \/ Deliver(r)

SpecDrag == InitDrag /\ [][NextDrag]_vars

\* the column form: any title of up to MaxTitleLen characters
TitleChars == {"a", "A", " ", "\t", "_"}
Titles == UNION {[1..n -> TitleChars] : n \in 0..MaxTitleLen}
\* two titles a user types: "In Review" and "a   b"
InReview == <<"I", "n", " ", "R", "e", "v", "i", "e", "w">>
ThreeSpaces == <<"a", " ", " ", " ", "b">>

InitDerive ==
    /\ boards = {} /\ boardRows = <<>> /\ boardCount = 0
    /\ columns = <<>> /\ columnCount = 0
    /\ tasks = <<>> /\ taskCount = 0
    /\ reqs = [r \in Slots |-> NoReq]
    /\ reply = Reply("none", 0, 0, 0)
    /\ cascaded = {}
    /\ uiBoard = 0 /\ uiColumns = <<>> /\ disturbed = FALSE
    /\ uiTasks = <<>> /\ draggedTask = 0
    /\ title \in Titles \cup {InReview, ThreeSpaces} /\ key = <<>>
    /\ form = NoForm

\* handleCreateColumn's derivation, applied to the title and then to its own result
Derive ==
    /\ Len(key) < MaxDerivations
    /\ key' = Append(key, deriveStatusKey(IF key = <<>> THEN title ELSE key[Len(key)]))
    /\ UNCHANGED <<boards, boardRows, boardCount, columns, columnCount, tasks, taskCount, reqs, reply,
                   cascaded, uiVars, title, formVars>>

SpecDerive == InitDerive /\ [][Derive]_vars

\* the bodies sent to POST /api/boards: titles and descriptions around the limits of
\* validateBoard, padded with whitespace or not, a body without title
PostedTitles ==
    {<<>>, <<" ">>, <<" ", "a", " ">>, Filled("a", BoardTitleMax),
     Filled("a", BoardTitleMax) \o <<" ">>, Filled("a", BoardTitleMax + 1)}
PostedDescriptions == {<<" ", "d">>, Filled("d", BoardDescriptionMax + 1)}
BoardBodies ==
    {[title |-> t] : t \in PostedTitles}
    \cup {[title |-> t, description |-> d] : t \in PostedTitles, d \in PostedDescriptions}
    \cup {[description |-> <<" ", "d">>]}

PostBoardBody == \E body \in BoardBodies : PostBoardOf(body)

\* the boards API: creations with any body, deletions
NextBoards ==
    \/ PostBoardBody
    \/ DeleteBoard

SpecBoards == Init /\ [][NextBoards]_vars

\* the bodies sent to POST /api/tasks: with and without status and priority, the
\* status also empty or padded, the priority also none of the three
PostedStatuses == {<<>>, <<"X">>, <<" ", "x">>}
PostedPriorities == {"LOW", "HIGH", "URGENT"}
TaskCreateBodies ==
    {[title |-> <<"a">>]}
    \cup {[title |-> <<"a">>, status |-> st] : st \in PostedStatuses}
    \cup {[title |-> <<"a">>, priority |-> p] : p \in PostedPriorities}
    \cup {[title |-> <<"a">>, status |-> st, priority |-> p] :
             st \in PostedStatuses, p \in PostedPriorities}

PostTaskBody(r) == \E body \in TaskCreateBodies, b \in BoardIds : PostTaskOf(r, body, b)

\* the task creation API on a store with one board
NextTasks ==
    \/ DeleteBoard
    \/ DeleteTask
    \/ \E r \in Slots :
        \/ PostTaskBody(r)
        \/ PostTaskCreate(r)

SpecTasks == InitClient /\ [][NextTasks]_vars

\* the values and the rules validateForm is called with
FieldValues == {<<>>, <<" ">>, <<"a", "b">>, <<"a", "b", "c", "d">>}
FieldRules ==
    {<<>>, [required |-> TRUE], [required |-> TRUE, minLength |-> 3], [minLength |-> 3],
     [maxLength |-> 2], [maxLength |-> 0], [minLength |-> 0, maxLength |-> 3]}
FormDatas ==
    {<<>>} \cup {[title |-> v] : v \in FieldValues}
    \cup {[title |-> v, description |-> w] : v \in {<<>>, <<"a", "b">>}, w \in FieldValues}
FormRules ==
    {[title |-> r] : r \in FieldRules}
    \cup {[title |-> r, description |-> q] : r \in {[required |-> TRUE]}, q \in FieldRules}

InitValidate ==
    /\ boards = {} /\ boardRows = <<>> /\ boardCount = 0
    /\ columns = <<>> /\ columnCount = 0
    /\ tasks = <<>> /\ taskCount = 0
    /\ reqs = [r \in Slots |-> NoReq]
    /\ reply = Reply("none", 0, 0, 0)
    /\ cascaded = {}
    /\ uiBoard = 0 /\ uiColumns = <<>> /\ disturbed = FALSE
    /\ uiTasks = <<>> /\ draggedTask = 0
    /\ title = <<>> /\ key = <<>>
    /\ \E data \in FormDatas, rules \in FormRules :
         form = [NoForm EXCEPT !.data = data, !.rules = rules, !.pc = "filled"]

\* validateForm by itself
SpecValidate == InitValidate /\ [][ValidateForm]_vars

\* the edit-task form of a client that shows its board
NextEdit ==
    \/ OpenEditTask
    \/ EditTaskField
    \/ SubmitEditTask
    \/ CloseEditTask

SpecEdit == InitDrag /\ [][NextEdit]_vars

\* the board of the client fetched: no Column record yet, MaxTasks + 1 tasks, the
\* first one with a status that no column has
InitListing ==
    /\ boards = {1} /\ boardCount = 1
    /\ boardRows = 1 :> [title |-> <<"a">>, description |-> null]
    /\ columns = <<>> /\ columnCount = 0
    /\ tasks = [t \in 1..(MaxTasks + 1) |->
                   [title |-> <<"a">>, description |-> null,
                    status |-> IF t = 1 THEN <<"Q", "_", "A">> ELSE TODO,
                    priority |-> "MEDIUM", boardId |-> 1]]
    /\ taskCount = MaxTasks + 1
    /\ reqs = [r \in Slots |-> NoReq]
    /\ reply = Reply("none", 0, 0, 0)
    /\ cascaded = {}
    /\ uiBoard = 1 /\ uiColumns = <<>> /\ disturbed = FALSE
    /\ uiTasks = [t \in 1..(MaxTasks + 1) |-> [id |-> t] @@ tasks[t]]
    /\ draggedTask = 0
    /\ title = <<>> /\ key = <<>>
    /\ form = NoForm

\* one client creating and deleting columns on its board
NextListing ==
    \/ \E r \in Slots :
        \/ UiCreateColumn(r)
        \/ PostColumnFindLast(r)
        \/ PostColumnCreate(r)
        \/ UiDeleteColumn(r)
        \/ Deliver(r)

SpecListing == InitListing /\ [][NextListing]_vars

\* two boards with one task each, no board selected yet
InitSwitch ==
    /\ boards = 1..MaxBoards /\ boardCount = MaxBoards
    /\ boardRows = [b \in 1..MaxBoards |-> [title |-> <<"a">>, description |-> null]]
    /\ columns = <<>> /\ columnCount = 0
    /\ tasks = [t \in 1..MaxBoards |->
                   [title |-> <<"a">>, description |-> null, status |-> TODO,
                    priority |-> "MEDIUM", boardId |-> t]]
    /\ taskCount = MaxBoards
    /\ reqs = [r \in Slots |-> NoReq]
    /\ reply = Reply("none", 0, 0, 0)
    /\ cascaded = {}
    /\ uiBoard = 0 /\ uiColumns = <<>> /\ disturbed = FALSE
    /\ uiTasks = <<>> /\ draggedTask = 0
    /\ title = <<>> /\ key = <<>>
    /\ form = NoForm

\* the client switching between boards, next to another caller deleting tasks
NextSwitch ==
    \/ DeleteTask
    \/ \E r \in Slots :
        \/ UiSwitchBoard(r)
        \/ Deliver(r)

SpecSwitch == InitSwitch /\ [][NextSwitch]_vars

\* no request is being served
Quiet == \A r \in Slots : reqs[r].kind = "none"

\* column creations and deletions one after the other: a request starts when the one
\* before has been answered
NextSequential ==
    \/ Quiet /\ DeleteColumn
    \/ \E r \in Slots :
        \/ Quiet /\ PostColumn(r)
        \/ PostColumnFindLast(r)
        \/ PostColumnCreate(r)

SpecSequential == InitSwitch /\ [][NextSequential]_vars

\* a single client moving the tasks of its board, no other caller
NextSingle ==
    \/ UiDragStart
    \/ UiDragEnd
    \/ \E r \in Slots :
        \/ UiDrop(r)
        \/ Deliver(r)

SpecSingle == InitDrag /\ [][NextSingle]_vars

\* ------------------------------------------------------------------ claims

\* C1: a successful DELETE /boards/:id of B removes every Task and every Column whose
\* boardId is B.id, and every later GET of one of those task or column ids answers 404.
C1_BoardDeleteCascades ==
    /\ [](\A p \in cascaded :
            /\ p[1] = "task" => p[2] \notin DOMAIN tasks
            /\ p[1] = "column" => p[2] \notin DOMAIN columns)
    /\ [][(reply' # reply /\ reply'.kind = "deleteBoard" /\ reply'.resp = 200) =>
            /\ \A t \in DOMAIN tasks' : tasks'[t].boardId # reply'.id
            /\ \A c \in DOMAIN columns' : columns'[c].boardId # reply'.id
            /\ \A t \in DOMAIN tasks : tasks[t].boardId = reply'.id => <<"task", t>> \in cascaded'
            /\ \A c \in DOMAIN columns :
                   columns[c].boardId = reply'.id => <<"column", c>> \in cascaded']_vars
    /\ [][(reply' # reply /\ reply'.kind = "getTask" /\ <<"task", reply'.id>> \in cascaded)
            => reply'.resp = 404]_vars
    /\ [][(reply' # reply /\ reply'.kind = "getColumn" /\ <<"column", reply'.id>> \in cascaded)
            => reply'.resp = 404]_vars

\* C1 witness: a board with a task and a column was deleted and the task was fetched again
C1_Witness ==
    /\ \E p \in cascaded : p[1] = "column"
    /\ \E p \in cascaded :
         p[1] = "task" /\ reply.kind = "getTask" /\ reply.id = p[2] /\ reply.resp = 404

\* C2: under any interleaving of POST /tasks or POST /columns with DELETE /boards/:id,
\* once every request has completed no stored Task or Column has a boardId that matches
\* no stored Board.
C2_NoOrphans ==
    (\A r \in Slots : reqs[r].kind = "none") =>
        /\ \A t \in DOMAIN tasks : tasks[t].boardId \in boards
        /\ \A c \in DOMAIN columns : columns[c].boardId \in boards

\* C2 witness: a board was deleted between a POST's board lookup and its insert, and
\* every request has completed
C2_Witness ==
    /\ \A r \in Slots : reqs[r].kind = "none"
    /\ reply.kind \in {"postTask", "postColumn"}
    /\ reply.resp = 500
    /\ reply.board \notin boards

\* C3: POST /tasks and POST /columns with otherwise valid fields and a boardId that
\* matches no existing Board answer 404 and create no row: no such request goes on to
\* the insert, and the stored tasks and columns are unchanged.
C3_MissingBoardIsNotFound ==
    [][/\ \A r \in Slots :
            (reqs[r].kind = "none" /\ reqs'[r].kind \in {"postTask", "postColumn"}
                /\ reqs'[r].pc # "done")
            => reqs'[r].board \in boards
       /\ (reqs' = reqs /\ reply' # reply /\ reply'.kind \in {"postTask", "postColumn"}
            /\ reply'.resp # 400 /\ reply'.board \notin boards)
          => (reply'.resp = 404 /\ tasks' = tasks /\ columns' = columns
              /\ taskCount' = taskCount /\ columnCount' = columnCount)]_vars

\* C3 witness: a POST /tasks for a missing board was answered 404 while rows are stored
C3_Witness ==
    /\ reply.kind = "postTask" /\ reply.resp = 404 /\ reply.board \notin boards
    /\ DOMAIN tasks # {} /\ DOMAIN columns # {}

\* C8: a column created by POST /columns for board B is stored with order 1 + the
\* maximum order among B's existing columns (columns of other boards are ignored), or
\* 0 when B has no columns.
C8_NextColumnOrder ==
    [][\A r \in Slots :
        LET b == reqs[r].board
            orders == {columns[c].order : c \in {d \in DOMAIN columns : columns[d].boardId = b}}
        IN /\ (reqs[r].pc = "findLast" /\ reqs'[r].pc = "create") =>
                /\ orders = {} => reqs'[r].order = 0
                /\ orders # {} => /\ reqs'[r].order - 1 \in orders
                                   /\ \A o \in orders : o < reqs'[r].order
           /\ (reqs[r].kind = "postColumn" /\ reqs[r].pc = "create" /\ reqs'[r].pc # "create"
                /\ reply'.resp = 201) =>
                /\ reply'.id \in DOMAIN columns' \ DOMAIN columns
                /\ columns'[reply'.id].order = reqs[r].order
                /\ columns'[reply'.id].boardId = b]_vars

\* C8 witness: a column was just stored with order 2 on a board whose two columns
\* have the orders 1 and 2 (the column of order 0 was deleted)
C8_Witness ==
    /\ reply.kind = "postColumn" /\ reply.resp = 201
    /\ reply.id \in DOMAIN columns
    /\ columns[reply.id].order = 2
    /\ {columns[c].order : c \in BoardColumns(reply.board)} = {1, 2}
    /\ Cardinality(BoardColumns(reply.board)) = 2

\* C9: two concurrent POST /columns requests for one board can both read the same last
\* column before either inserts; both columns are then stored with the same order and
\* both requests are answered 201: the insert of a request whose board exists is never
\* refused because its order is taken.
C9_SameOrderBothCreated ==
    [][\A r \in Slots :
        (reqs[r].kind = "postColumn" /\ reqs[r].pc = "create" /\ reqs'[r].pc # "create"
            /\ reqs[r].board \in boards) =>
            /\ reply'.kind = "postColumn" /\ reply'.resp = 201
            /\ reply'.id \in DOMAIN columns' \ DOMAIN columns
            /\ columns'[reply'.id].order = reqs[r].order]_vars

\* C9 witness: two stored columns of one board have the same order, the second of them
\* just answered 201
C9_Witness ==
    /\ reply.kind = "postColumn" /\ reply.resp = 201
    /\ reply.id \in DOMAIN columns
    /\ \E c \in DOMAIN columns :
         /\ c # reply.id
         /\ columns[c].boardId = columns[reply.id].boardId
         /\ columns[c].order = columns[reply.id].order

\* the statuses and the headings of the rendered columns, in order
RenderedStatuses == [i \in 1..Len(effectiveColumns(uiColumns)) |->
                        effectiveColumns(uiColumns)[i].status]
RenderedTitles == [i \in 1..Len(effectiveColumns(uiColumns)) |->
                      effectiveColumns(uiColumns)[i].title]
Occurrences(seq, x) == Cardinality({i \in 1..Len(seq) : seq[i] = x})
Ascending(cols) == \A i, j \in 1..Len(cols) : i < j => cols[i].order <= cols[j].order

\* C4: in the column sequence rendered for a board, each of the static statuses TODO,
\* IN_PROGRESS and DONE occurs exactly once, also when the board has a Column record
\* whose status equals one of them.
C4_StaticStatusOnce ==
    uiBoard # 0 => \A i \in 1..Len(staticStatuses) : Occurrences(RenderedStatuses, staticStatuses[i]) = 1

\* C5: for every set of stored Column records, the first three entries of the rendered
\* column sequence are TODO, IN_PROGRESS, DONE in that order.
C5_StaticStatusesFirst ==
    /\ Len(RenderedStatuses) >= 3
    /\ SubSeq(RenderedStatuses, 1, 3) = <<TODO, IN_PROGRESS, DONE>>

\* C5 witness: the client holds two Column records, the first with the status DONE
C5_Witness == Len(uiColumns) >= 2 /\ uiColumns[1].status = DONE

\* C6: when no Column record has a static status, the three static columns are displayed
\* with the labels "TODO", "DOING" and "DONE".
C6_StaticLabels ==
    (uiBoard # 0 /\ \A i \in 1..Len(uiColumns) : ~includes(staticStatuses, uiColumns[i].status)) =>
        SubSeq(RenderedTitles, 1, 3) = <<TODO, <<"D", "O", "I", "N", "G">>, DONE>>

\* C7 as claimed: after the three static columns, the rendered sequence lists the
\* board's Column records in ascending order of their order field, after any sequence
\* of column fetches, creations and deletions, changes by another client included.
C7_AscendingAlways == Ascending(uiColumns)

\* C7 as amended: as long as this client's column requests ran one at a time and no
\* other client changed the columns, the rendered sequence lists the Column records
\* after the three static columns in ascending order; once the client's request is
\* answered they are exactly the board's stored columns.
C7_AscendingWhenSequential ==
    ~disturbed =>
        /\ Ascending(uiColumns)
        /\ SubSeq(RenderedStatuses, 4, Len(RenderedStatuses))
               = [i \in 1..Len(uiColumns) |-> uiColumns[i].status]
        /\ (uiBoard # 0 /\ ~UiBusy) => uiColumns \in findManyByOrder(uiBoard)

\* C7 witness: the client created three columns and deleted the second, alone
C7_Witness ==
    /\ ~disturbed /\ ~UiBusy
    /\ [i \in 1..Len(uiColumns) |-> uiColumns[i].order] = <<0, 2>>

\* C10: the status-key derivation is idempotent: deriving from a derived key gives
\* that key again.
C10_DeriveIdempotent == \A i \in 1..Len(key) : key[i] = key[1]

\* C10 witness: a title with lower case and a run of two whitespace characters was
\* derived twice
C10_Witness ==
    /\ Len(key) = 2
    /\ \E i \in 1..(Len(title) - 1) : title[i] \in Whitespace /\ title[i + 1] \in Whitespace
    /\ \E i \in 1..Len(title) : title[i] = "a"

\* the positions of a title that show in its key: every character that is no
\* whitespace, and the first character of every maximal run of whitespace
KeyPositions(t) == {i \in 1..Len(t) : t[i] \notin Whitespace \/ i = 1 \/ t[i - 1] \notin Whitespace}
NthPosition(t, n) ==
    CHOOSE i \in KeyPositions(t) : Cardinality({j \in KeyPositions(t) : j < i}) = n - 1

\* C11: the derived status key is the title with every letter uppercased and every
\* maximal run of whitespace replaced by exactly one underscore, all other characters
\* unchanged: "In Review" gives "IN_REVIEW", three spaces between two words give one
\* underscore.
C11_DerivedKey ==
    Len(key) >= 1 =>
        /\ Len(key[1]) = Cardinality(KeyPositions(title))
        /\ \A n \in 1..Len(key[1]) :
              LET c == title[NthPosition(title, n)] IN
              key[1][n] = IF c \in Whitespace THEN "_"
                          ELSE IF \E i \in 1..Len(Lower) : Lower[i] = c
                               THEN Upper[CHOOSE i \in 1..Len(Lower) : Lower[i] = c]
                               ELSE c
        /\ title = InReview => key[1] = <<"I", "N", "_", "R", "E", "V", "I", "E", "W">>
        /\ title = ThreeSpaces => key[1] = <<"A", "_", "B">>

\* C11 witness: the key of the title with three spaces between two words was derived
C11_Witness == Len(key) >= 1 /\ title = ThreeSpaces

\* C12 as claimed: no two Column records of one board have the same status, and no
\* Column record created through the column form has the status TODO, IN_PROGRESS or
\* DONE (other callers of the API send no such status here).
C12_UniqueStatus ==
    /\ \A c, d \in DOMAIN columns :
          (c # d /\ columns[c].boardId = columns[d].boardId)
              => columns[c].status # columns[d].status
    /\ \A c \in DOMAIN columns : ~includes(staticStatuses, columns[c].status)

\* C13: the delete action is shown for a rendered column exactly when its status is
\* none of TODO, IN_PROGRESS, DONE (it is shown for CODE_REVIEW); the static columns
\* are rendered in every state, and every deletion issued from the board is that of
\* a Column record rendered after them under a status that is not static.
C13_StaticNotDeletable ==
    /\ [](/\ ~isDeletable(TODO) /\ ~isDeletable(IN_PROGRESS) /\ ~isDeletable(DONE)
          /\ isDeletable(<<"C", "O", "D", "E", "_", "R", "E", "V", "I", "E", "W">>))
    /\ [](LET rendered == effectiveColumns(uiColumns) IN
          /\ \A i \in 1..Len(rendered) :
                rendered[i].deleteButton <=> rendered[i].status \notin {TODO, IN_PROGRESS, DONE}
          /\ \A s \in {TODO, IN_PROGRESS, DONE} :
                \E i \in 1..Len(rendered) : rendered[i].status = s)
    /\ [][\A r \in Slots :
            (reqs[r].kind = "none" /\ reqs'[r].kind = "deleteColumn") =>
                \E i \in 4..Len(effectiveColumns(uiColumns)) :
                    /\ effectiveColumns(uiColumns)[i].status \notin {TODO, IN_PROGRESS, DONE}
                    /\ effectiveColumns(uiColumns)[i].deletes = reqs'[r].id]_vars

\* C13 witness: a column was deleted from the board while the board shows a Column
\* record of the status DONE next to the static columns
C13_Witness ==
    /\ \E r \in Slots : reqs[r].kind = "deleteColumn" /\ reqs[r].resp = 200
    /\ \E i \in 1..Len(uiColumns) : uiColumns[i].status = DONE

\* C14: DELETE /columns/:id of an existing column removes exactly that Column record;
\* every stored Task (also one whose status is the deleted column's status), every
\* other Column and every Board is left unchanged.
C14_DeleteColumnOnly ==
    [][(reply' # reply /\ reply'.kind = "deleteColumn" /\ reply'.resp = 200) =>
        /\ reply'.id \in DOMAIN columns
        /\ DOMAIN columns' = DOMAIN columns \ {reply'.id}
        /\ \A c \in DOMAIN columns' : columns'[c] = columns[c]
        /\ tasks' = tasks /\ taskCount' = taskCount
        /\ boards' = boards /\ boardCount' = boardCount]_vars

\* C14 witness: a column was deleted while a task carries its status and another
\* column of the board stays
C14_Witness ==
    /\ reply.kind = "deleteColumn" /\ reply.resp = 200
    /\ \E t \in DOMAIN tasks :
         /\ tasks[t].status = <<"Q", "_", "A">>
         /\ \E c \in BoardColumns(tasks[t].boardId) : columns[c].status = tasks[t].status

\* a text without any character that is no whitespace
Blank(t) == \A i \in 1..Len(t) : t[i] \in Whitespace

\* the body of a POST or PUT breaks a field rule of its route
FailsValidation(kind, body) ==
    CASE kind \in {"postBoard", "putBoard"} -> ~has(body, "title") \/ Blank(body.title)
      [] kind = "postTask" -> Blank(body.title)
      [] kind = "putTask" ->
            \/ has(body, "title") /\ Blank(body.title)
            \/ has(body, "priority") /\ body.priority \notin {"LOW", "MEDIUM", "HIGH"}
      [] kind = "postColumn" -> Blank(body.title) \/ Blank(body.status)
      [] kind = "putColumn" ->
            \/ has(body, "title") /\ Blank(body.title)
            \/ has(body, "status") /\ Blank(body.status)
            \/ has(body, "order") /\ body.order < 0
      [] OTHER -> FALSE

\* the stored boards, tasks and columns are the same after a step
StoreUnchanged ==
    /\ boards' = boards /\ boardRows' = boardRows /\ boardCount' = boardCount
    /\ tasks' = tasks /\ taskCount' = taskCount
    /\ columns' = columns /\ columnCount' = columnCount

\* the stored rows other than the row id of a table are the same after a step
OthersUnchanged(rows, rowsAfter, id) ==
    /\ DOMAIN rowsAfter = DOMAIN rows
    /\ \A i \in DOMAIN rows \ {id} : rowsAfter[i] = rows[i]

\* C15: for every existing task and every string S (one that is no static status and
\* no column's status, and the task's current status included), PUT /tasks/:id with
\* the status S (and no other field that breaks a field rule) answers 200 and stores S
\* as the task's status; a body of the status alone changes nothing else of the task,
\* and no other entity changes.
C15_AnyStatusAccepted ==
    [][(reply' # reply /\ reply'.kind = "putTask" /\ has(reply'.body, "status")
            /\ ~FailsValidation("putTask", reply'.body) /\ reply'.id \in DOMAIN tasks) =>
        /\ reply'.resp = 200
        /\ OthersUnchanged(tasks, tasks', reply'.id)
        /\ tasks'[reply'.id].status = reply'.body.status
        /\ DOMAIN reply'.body = {"status"} =>
              tasks'[reply'.id] = [tasks[reply'.id] EXCEPT !.status = reply'.body.status]
        /\ columns' = columns /\ boards' = boards /\ boardRows' = boardRows]_vars

\* C15 witness: a task was given a status that is no static status and no column's
\* status
C15_Witness ==
    /\ reply.kind = "putTask" /\ reply.resp = 200 /\ reply.body = [status |-> <<"X">>]
    /\ reply.id \in DOMAIN tasks /\ tasks[reply.id].status = <<"X">>
    /\ DOMAIN columns # {}
    /\ \A c \in DOMAIN columns : columns[c].status # <<"X">>

\* C17 as claimed: PUT /boards/:id on an existing board accepts a partial patch: a
\* body with only description answers 200, changes the description and leaves the
\* title; a body with only title leaves the description.
C17_BoardPartialPatch ==
    [][(reply' # reply /\ reply'.kind = "putBoard" /\ reply'.id \in boards) =>
        /\ DOMAIN reply'.body = {"description"} =>
              /\ reply'.resp = 200
              /\ boardRows'[reply'.id].title = boardRows[reply'.id].title
              /\ boardRows'[reply'.id].description = reply'.body.description
        /\ DOMAIN reply'.body = {"title"} =>
              /\ reply'.resp = 200
              /\ boardRows'[reply'.id].description = boardRows[reply'.id].description]_vars

\* C18: a successful PUT /tasks/:id or PUT /columns/:id changes only the fields that
\* are present in the body (they take the value sent, title, description and a
\* column's status trimmed); every absent field, the id and the boardId keep their
\* values and no other entity is modified.
C18_OnlyPresentFields ==
    /\ [][(reply' # reply /\ reply'.kind = "putTask" /\ reply'.resp = 200) =>
            LET t == reply'.id
                body == reply'.body
            IN /\ t \in DOMAIN tasks
               /\ OthersUnchanged(tasks, tasks', t)
               /\ DOMAIN tasks'[t] = DOMAIN tasks[t]
               /\ \A f \in DOMAIN tasks[t] \ DOMAIN body : tasks'[t][f] = tasks[t][f]
               /\ \A f \in DOMAIN body \cap {"status", "priority"} : tasks'[t][f] = body[f]
               /\ \A f \in DOMAIN body \cap {"title", "description"} :
                     tasks'[t][f] = trim(body[f])
               /\ tasks'[t].boardId = tasks[t].boardId
               /\ columns' = columns /\ boards' = boards /\ boardRows' = boardRows]_vars
    /\ [][(reply' # reply /\ reply'.kind = "putColumn" /\ reply'.resp = 200) =>
            LET c == reply'.id
                body == reply'.body
            IN /\ c \in DOMAIN columns
               /\ OthersUnchanged(columns, columns', c)
               /\ DOMAIN columns'[c] = DOMAIN columns[c]
               /\ \A f \in DOMAIN columns[c] \ DOMAIN body : columns'[c][f] = columns[c][f]
               /\ \A f \in DOMAIN body \cap {"order"} : columns'[c][f] = body[f]
               /\ \A f \in DOMAIN body \cap {"title", "status"} :
                     columns'[c][f] = trim(body[f])
               /\ columns'[c].boardId = columns[c].boardId
               /\ tasks' = tasks /\ boards' = boards /\ boardRows' = boardRows]_vars

\* C18 witness: a task created with the status Q_A got a new title, description and
\* priority, and a column got a new status and order
C18_Witness ==
    /\ reply.kind = "putTask" /\ reply.resp = 200
    /\ DOMAIN reply.body = {"title", "description", "priority"}
    /\ tasks[reply.id].status = <<"Q", "_", "A">> /\ tasks[reply.id].priority = "HIGH"
    /\ \E c \in DOMAIN columns : columns[c].order = 7 /\ columns[c].title = <<"q", " ", "a">>

\* C19: every POST or PUT on boards, tasks or columns whose body fails field validation
\* is answered 400 'Validation failed' with the stored boards, tasks and columns as
\* they were, also when the referenced board or the target entity does not exist; no
\* request with such a body goes on to the store.
C19_ValidationFirst ==
    /\ [][(/\ reply' # reply
           /\ \/ reply'.kind \in {"putBoard", "putTask", "putColumn"}
              \/ reply'.kind \in {"postBoard", "postTask", "postColumn"} /\ reply'.resp \in {400, 404}
           /\ FailsValidation(reply'.kind, reply'.body)) =>
            /\ reply'.resp = 400 /\ reply'.error = "Validation failed"
            /\ StoreUnchanged /\ reqs' = reqs]_vars
    /\ [][(reply' # reply /\ reply'.resp = 400) => StoreUnchanged /\ reqs' = reqs]_vars
    /\ [][\A r \in Slots :
            (reqs[r].kind = "none" /\ reqs'[r].kind \in {"postTask", "postColumn"}
                /\ reqs'[r].pc # "done") =>
                /\ ~Blank(reqs'[r].title)
                /\ reqs'[r].kind = "postColumn" => ~Blank(reqs'[r].status)]_vars

\* C19 witness: an update of a column that is not stored was refused for its body,
\* while a board, a column and a task are stored
C19_Witness ==
    /\ reply.kind = "putColumn" /\ reply.resp = 400 /\ reply.id \notin DOMAIN columns
    /\ boards # {} /\ DOMAIN columns # {} /\ DOMAIN tasks # {}

\* a PUT or DELETE on /boards/:id, /tasks/:id or /columns/:id is answered in this step,
\* and its id matches no stored entity
AnswersMissing ==
    /\ reply' # reply
    /\ \/ reply'.kind \in {"putBoard", "deleteBoard"} /\ reply'.id \notin boards
       \/ reply'.kind \in {"putTask", "deleteTask"} /\ reply'.id \notin DOMAIN tasks
       \/ reply'.kind \in {"putColumn", "deleteColumn"} /\ reply'.id \notin DOMAIN columns

\* the answer is 404 '<Entity> not found' and the store is as it was
NotFoundAnswer ==
    /\ reply'.resp = 404
    /\ reply'.error = (IF reply'.kind \in {"putBoard", "deleteBoard"} THEN "Board not found"
                       ELSE IF reply'.kind \in {"putTask", "deleteTask"} THEN "Task not found"
                       ELSE "Column not found")
    /\ StoreUnchanged

\* C20 as claimed: every PUT or DELETE on /boards/:id, /tasks/:id or /columns/:id with
\* an id that matches no stored entity (one deleted directly or by a board's cascade
\* included) is answered 404 '<Entity> not found' and leaves the store unchanged.
C20_MissingIsNotFoundAlways == [][AnswersMissing => NotFoundAnswer]_vars

\* C20 as amended: DELETE, and PUT with a body that passes the route's field
\* validation, on /boards/:id, /tasks/:id or /columns/:id with an id that matches no
\* stored entity is answered 404 '<Entity> not found' and leaves the store unchanged;
\* a PUT whose body fails validation is answered 400 and leaves the store unchanged.
C20_MissingIsNotFound ==
    [][AnswersMissing =>
        IF FailsValidation(reply'.kind, reply'.body)
        THEN reply'.resp = 400 /\ StoreUnchanged
        ELSE NotFoundAnswer]_vars

\* C20 witness: the update of a task that a board's cascade removed was answered 404,
\* after a column deleted directly
C20_Witness ==
    /\ reply.kind = "putTask" /\ reply.resp = 404
    /\ <<"task", reply.id>> \in cascaded
    /\ \E c \in 1..columnCount : c \notin DOMAIN columns /\ <<"column", c>> \notin cascaded

\* C16: a drop of the dragged task t on a rendered column of status S issues one update
\* of t with the status S; when the update succeeds the stored task has the status S
\* and every other stored task is unchanged, and when its response arrives the local
\* copy of t has the status S and every other local task is unchanged; a drop while no
\* task is dragged issues no update. As long as the client's requests run one at a time
\* and no other caller changes tasks, every local task equals the stored one once the
\* response has arrived.
C16_DropUpdatesStatus ==
    /\ [][\A r \in Slots :
            (reqs[r].kind = "none" /\ reqs'[r].kind = "putTask") =>
                /\ draggedTask # 0
                /\ reqs'[r].id = draggedTask
                /\ \A s \in Slots \ {r} : reqs'[s] = reqs[s]
                /\ reply'.kind = "putTask" /\ reply'.id = draggedTask
                /\ DOMAIN reply'.body = {"status"}
                /\ \E i \in 1..Len(RenderedStatuses) : RenderedStatuses[i] = reply'.body.status
                /\ reqs'[r].resp = reply'.resp
                /\ reply'.resp = 200 =>
                      /\ tasks'[draggedTask].status = reply'.body.status
                      /\ OthersUnchanged(tasks, tasks', draggedTask)
                      /\ reqs'[r].data[1].status = reply'.body.status]_vars
    /\ [][\A r \in Slots :
            (reqs[r].kind = "putTask" /\ reqs'[r].kind = "none" /\ reqs[r].resp = 200) =>
                /\ Len(uiTasks') = Len(uiTasks)
                /\ \A i \in 1..Len(uiTasks) :
                      IF uiTasks[i].id = reqs[r].id
                      THEN uiTasks'[i].status = reqs[r].data[1].status
                      ELSE uiTasks'[i] = uiTasks[i]]_vars
    /\ [][draggedTask = 0 =>
            /\ \A t \in DOMAIN tasks' : t \in DOMAIN tasks /\ tasks'[t] = tasks[t]
            /\ reply'.kind = "putTask" => reply' = reply]_vars
    /\ []((~disturbed /\ ~UiBusy) =>
            \A i \in 1..Len(uiTasks) :
                /\ uiTasks[i].id \in DOMAIN tasks
                /\ uiTasks[i] = [id |-> uiTasks[i].id] @@ tasks[uiTasks[i].id])

\* C16 witness: the first task was dropped on the column of status Q_A and the response
\* has arrived; the second task is still in TODO, stored and local
C16_Witness ==
    /\ ~UiBusy /\ ~disturbed
    /\ Len(uiTasks) = 2
    /\ uiTasks[1].status = <<"Q", "_", "A">> /\ tasks[uiTasks[1].id].status = <<"Q", "_", "A">>
    /\ uiTasks[2].status = TODO /\ tasks[uiTasks[2].id].status = TODO

\* the title a POST /api/boards body submits, the empty text when it submits none
SubmittedTitle(body) == IF has(body, "title") THEN body.title ELSE <<>>
\* the body's description is one validateBoard accepts
DescriptionFits(body) ==
    has(body, "description") => Len(trim(body.description)) <= BoardDescriptionMax
BoardsUnchanged == boards' = boards /\ boardRows' = boardRows /\ boardCount' = boardCount
Refused ==
    /\ reply'.resp = 400 /\ reply'.error = "Validation failed"
    /\ includes(reply'.details, "title")
    /\ BoardsUnchanged

\* C21 as stated: POST /boards with a title that is empty, blank or longer than 100
\* characters is answered 400 'Validation failed' with a detail entry for title and
\* creates no board; with a title of 1 to 100 characters it is answered 201 and the
\* created board has the submitted title and description.
C21_BoardTitleAsSubmitted ==
    [][(reply' # reply /\ reply'.kind = "postBoard") =>
        LET t == SubmittedTitle(reply'.body) IN
        /\ (Blank(t) \/ Len(t) > BoardTitleMax) => Refused
        /\ (~Blank(t) /\ Len(t) <= BoardTitleMax) =>
              /\ reply'.resp = 201
              /\ reply'.id \in boards' \ boards
              /\ boardRows'[reply'.id].title = t
              /\ has(reply'.body, "description") =>
                    boardRows'[reply'.id].description = reply'.body.description]_vars

\* C21: POST /boards with a title that is empty once trimmed, or longer than 100
\* characters once trimmed, is answered 400 'Validation failed' with a detail entry for
\* title and creates no board; with a title of 1 to 100 characters once trimmed and a
\* description that is absent or at most 500 characters once trimmed it is answered 201
\* and the created board has the trimmed title and the trimmed description (none when
\* the body has none).
C21_BoardTitleTrimmed ==
    [][(reply' # reply /\ reply'.kind = "postBoard") =>
        LET t == trim(SubmittedTitle(reply'.body)) IN
        /\ (Len(t) = 0 \/ Len(t) > BoardTitleMax) => Refused
        /\ (Len(t) >= 1 /\ Len(t) <= BoardTitleMax /\ DescriptionFits(reply'.body)) =>
              /\ reply'.resp = 201
              /\ reply'.id \in boards' \ boards
              /\ boardRows'[reply'.id].title = t
              /\ boardRows'[reply'.id].description =
                    IF has(reply'.body, "description") THEN trim(reply'.body.description)
                    ELSE null]_vars

\* C21 witness: a title of 101 characters has been refused after a board with a title
\* of 100 characters and a description was created
C21_Witness ==
    /\ reply.kind = "postBoard" /\ reply.resp = 400
    /\ has(reply.body, "title") /\ Len(reply.body.title) = BoardTitleMax + 1
    /\ ~Blank(reply.body.title) /\ reply.body.title[BoardTitleMax + 1] # " "
    /\ \E b \in boards : Len(boardRows[b].title) = BoardTitleMax
                          /\ boardRows[b].description = <<"d">>

\* a task has been created by POST /api/tasks in this step
TaskCreated == reply' # reply /\ reply'.kind = "postTask" /\ reply'.resp = 201

\* C22 as stated: a task created by POST /tasks without status is stored with status
\* TODO, without priority with priority MEDIUM; a supplied status or priority is stored
\* as given.
C22_DefaultsUnlessSupplied ==
    [][TaskCreated =>
        /\ reply'.id \in DOMAIN tasks' \ DOMAIN tasks
        /\ tasks'[reply'.id].status =
              IF has(reply'.body, "status") THEN reply'.body.status ELSE TODO
        /\ tasks'[reply'.id].priority =
              IF has(reply'.body, "priority") THEN reply'.body.priority ELSE "MEDIUM"]_vars

\* C22: a task created by POST /tasks without status, or with the empty string for
\* status, is stored with status TODO, without priority with priority MEDIUM; a supplied
\* status that is not empty, or a supplied priority, is stored as given, the status
\* untrimmed.
C22_DefaultsUnlessNonEmpty ==
    [][TaskCreated =>
        /\ reply'.id \in DOMAIN tasks' \ DOMAIN tasks
        /\ tasks'[reply'.id].status =
              IF has(reply'.body, "status") /\ reply'.body.status # <<>>
              THEN reply'.body.status ELSE TODO
        /\ tasks'[reply'.id].priority =
              IF has(reply'.body, "priority") THEN reply'.body.priority ELSE "MEDIUM"]_vars

\* C22 witness: a task sent with the status ' x' and without priority has been created
\* with that status and MEDIUM
C22_Witness ==
    /\ reply.kind = "postTask" /\ reply.resp = 201
    /\ reply.body = [title |-> <<"a">>, status |-> <<" ", "x">>]
    /\ reply.id \in DOMAIN tasks
    /\ tasks[reply.id].status = <<" ", "x">> /\ tasks[reply.id].priority = "MEDIUM"

\* C23: client updates are optimistic: while the response to a task move or to a column
\* creation of the client is outstanding, the local list already shows the moved task
\* with its new status, or the new column.
C23_OptimisticUpdates ==
    \A r \in Slots :
        /\ (reqs[r].ui /\ reqs[r].kind = "putTask" /\ reqs[r].resp = 200) =>
              \E i \in 1..Len(uiTasks) :
                  /\ uiTasks[i].id = reqs[r].id
                  /\ uiTasks[i].status = reqs[r].data[1].status
        /\ (reqs[r].ui /\ reqs[r].kind = "postColumn" /\ reqs[r].pc # "done") =>
              \E i \in 1..Len(uiColumns) : uiColumns[i].title = reqs[r].title
        /\ (reqs[r].ui /\ reqs[r].kind = "postColumn" /\ reqs[r].resp = 201) =>
              \E i \in 1..Len(uiColumns) : uiColumns[i].id = reqs[r].id

\* a value fails a rule of required, minLength and maxLength, and the message for it
IsEmpty(value) == value = undefined \/ Blank(value)
TooShort(value, rule) ==
    value \notin {undefined, <<>>} /\ has(rule, "minLength") /\ Len(value) < rule.minLength
TooLong(value, rule) ==
    value \notin {undefined, <<>>} /\ has(rule, "maxLength") /\ Len(value) > rule.maxLength
FailsRule(value, rule) ==
    \/ has(rule, "required") /\ rule.required /\ IsEmpty(value)
    \/ TooShort(value, rule)
    \/ TooLong(value, rule)
MessageFor(value, rule) ==
    IF has(rule, "required") /\ rule.required /\ IsEmpty(value) THEN Required
    ELSE IF TooShort(value, rule) THEN AtLeast(rule.minLength)
    ELSE NoMoreThan(rule.maxLength)

C26_EditSubmitCallsUpdate ==
    [][(/\ form.pc = "open" /\ form'.submits = form.submits + 1
        /\ ~Blank(form.data.title) /\ Len(form.data.title) <= TaskTitleMax
        /\ Len(form.data.description) <= TaskDescriptionMax) =>
            form'.calls = Append(form.calls,
                [id |-> form.task,
                 data |-> [title |-> form.data.title, description |-> form.data.description,
                           status |-> form.data.status, priority |-> form.data.priority]])]_vars

\* the task is among the tasks listed under the i-th rendered column
ListedUnder(cols, list, task, i) ==
    \E k \in 1..Len(columnTasks(cols, list, i)) : columnTasks(cols, list, i)[k].id = task.id
Unmatched(cols, status) == ~includes(allStatuses(cols), status)

\* C25: a task of the client's board is listed under a rendered column exactly when its
\* status equals that column's status; a task whose status is no static status and no
\* Column record's status is listed under no column, and once the client has created a
\* Column with that status the task is listed under that column.
C25_ListedByStatus ==
    /\ [](\A j \in 1..Len(uiTasks) :
            /\ \A i \in 1..Len(allStatuses(uiColumns)) :
                  ListedUnder(uiColumns, uiTasks, uiTasks[j], i)
                      <=> uiTasks[j].status = allStatuses(uiColumns)[i]
            /\ Unmatched(uiColumns, uiTasks[j].status) =>
                  \A i \in 1..Len(allStatuses(uiColumns)) :
                      ~ListedUnder(uiColumns, uiTasks, uiTasks[j], i))
    /\ [][\A r \in Slots :
            (reqs[r].pc = "done" /\ reqs[r].kind = "postColumn" /\ reqs[r].resp = 201
                /\ reqs'[r] = NoReq) =>
                \A j \in 1..Len(uiTasks') :
                    uiTasks'[j].status = reqs[r].data[1].status =>
                        ListedUnder(uiColumns', uiTasks', uiTasks'[j], Len(allStatuses(uiColumns')))]_vars

\* C25 witness: the column Q_A made by the client has arrived and the task with status
\* Q_A, listed nowhere before, is listed under it, the other task under TODO only
C25_Witness ==
    /\ Len(uiColumns) = 1 /\ uiColumns[1].status = <<"Q", "_", "A">>
    /\ \E j \in 1..Len(uiTasks) :
         /\ uiTasks[j].status = <<"Q", "_", "A">>
         /\ ListedUnder(uiColumns, uiTasks, uiTasks[j], Len(allStatuses(uiColumns)))
         /\ ~ListedUnder(uiColumns, uiTasks, uiTasks[j], 1)
    /\ \E j \in 1..Len(uiTasks) : ListedUnder(uiColumns, uiTasks, uiTasks[j], 1)
    /\ reply.kind = "postColumn" /\ reply.resp = 201

\* C27: once every task fetch has completed, the client's local task list contains only
\* tasks of the currently selected board, whatever the order in which the responses
\* arrived.
C27_TasksOfSelectedBoard ==
    (uiBoard # 0 /\ \A r \in Slots : reqs[r].kind # "getTasks") =>
        \A i \in 1..Len(uiTasks) : uiTasks[i].boardId = uiBoard

\* C28: for every Column record c of the client's board, the rendered column produced
\* for c shows c's own title and its delete action deletes c's own id, also when another
\* Column record or a static status has the same status as c.
C28_OwnTitleAndDelete ==
    \A k \in 1..Len(uiColumns) :
        LET rendered == effectiveColumns(uiColumns)[Len(staticStatuses) + k] IN
        /\ rendered.title = uiColumns[k].title
        /\ rendered.deleteButton
        /\ rendered.deletes = uiColumns[k].id

\* C29: in every sequential execution made only of column creations and column
\* deletions, the order values of the columns of one board are pairwise distinct and
\* non-negative in every reachable state.
C29_DistinctOrders ==
    /\ \A c, d \in DOMAIN columns :
          (c # d /\ columns[c].boardId = columns[d].boardId) => columns[c].order # columns[d].order
    /\ \A c \in DOMAIN columns : columns[c].order >= 0

\* C29 witness: a board has two columns, the later one created with the highest order
\* so far after the deletion of a column of lower order
C29_Witness ==
    /\ reply.kind = "postColumn" /\ reply.resp = 201
    /\ Cardinality(DOMAIN columns) = 2 /\ Cardinality(BoardColumns(reply.board)) = 2
    /\ columnCount = MaxColumns
    /\ columns[reply.id].order = MaxColumns - 1

\* the records of a list, and the stored rows of a board as the server returns them
Records(list) == {list[i] : i \in 1..Len(list)}
StoredTasks(b) == {[id |-> t] @@ tasks[t] : t \in BoardTasks(b)}
StoredColumns(b) == {[id |-> c] @@ columns[c] : c \in BoardColumns(b)}

\* C30: with a single client on one board, once the initial fetch and every create,
\* update or delete the client has sent are completed, the client's local task list and
\* column list contain exactly the stored tasks and columns of the board with equal
\* field values; the response to a failed request leaves the local lists unchanged.
C30_LocalEqualsStored ==
    /\ []((uiBoard # 0 /\ Quiet) =>
            /\ Records(uiTasks) = StoredTasks(uiBoard)
            /\ Records(uiColumns) = StoredColumns(uiBoard))
    /\ [][\A r \in Slots :
            (reqs[r].pc = "done" /\ reqs'[r] = NoReq /\ reqs[r].resp \notin {200, 201}) =>
                uiTasks' = uiTasks /\ uiColumns' = uiColumns]_vars

====
